---- MODULE Spec2Model ----
(***************************************************************************)
(* Route Economics Engine of src/route_cost_estimator.py:                  *)
(*   calculate_costs_and_profit   (cost model + profitability model)       *)
(*   get_cashflow_risk_analysis   (cashflow risk model)                    *)
(*                                                                         *)
(* Arithmetic.  The program computes with Python floats.  The model        *)
(* computes the same expressions, in the same order, over exact rationals  *)
(* [n |-> numerator, d |-> denominator > 0] kept in lowest terms, so that  *)
(* two values are equal exactly when their records are equal.  Binary64    *)
(* rounding is not modelled: every statement below is a statement about    *)
(* the mathematical value of the expressions the code evaluates.           *)
(***************************************************************************)
EXTENDS Integers, Sequences, FiniteSets, TLC

(***************************************************************************)
(* State.  The engine's functions keep none: the variables are the locals  *)
(* of a calculation request and of a run of the page, and the session.     *)
(***************************************************************************)
VARIABLES
    pc,                 \* "idle" between requests, then "returned" or
                        \* "raised": how calculate_costs_and_profit ended
    inputs,             \* the mapping it was called with
    exception,          \* "none" or the exception it raised
    results,            \* <<>> or <<the mapping it returned>>
    payment_terms,      \* <<>> or <<the payment terms of the risk analysis>>
    cashflow_analysis,  \* <<>> or <<the analysis returned>>
    \* The page (main): one run of the script per user interaction.
    widgets,            \* <<>> or <<what the input widgets and the button
                        \* return in this run>>
    sliders,            \* <<>> or <<what the four what-if sliders return>>
    scenario,           \* <<>> or <<what the what-if simulator computed>>
    exports,            \* <<>> or <<what the two exports were made from>>
    session_state,      \* st.session_state: a mapping, empty at first
    session_before,     \* <<>> or <<st.session_state as this run found it>>
    view,               \* what the run showed, and how it ended
    \* Concurrent calculation requests (one thread per session).
    calls,              \* per request: where its thread is, what it passed
                        \* and what it got back
    frames,             \* per call frame: the locals of the function running
    \* The slip extractor page: one run of the script per interaction.
    slip                \* <<>> or <<the locals of this run>>

engine_vars ==
    <<pc, inputs, exception, results, payment_terms, cashflow_analysis>>

page_vars ==
    <<widgets, sliders, scenario, exports, session_state, session_before,
      view>>

request_vars == <<calls, frames>>

slip_vars == <<slip>>

vars == <<engine_vars, page_vars, request_vars, slip_vars>>

(***************************************************************************)
(* Exact rational arithmetic                                               *)
(***************************************************************************)
Abs(x) == IF x < 0 THEN -x ELSE x

RECURSIVE Gcd(_, _)
Gcd(a, b) == IF b = 0 THEN a ELSE Gcd(b, a % b)

\* n/d in lowest terms, d > 0
Rat(n, d) ==
    LET g == Gcd(Abs(n), d)
    IN  [n |-> n \div g, d |-> d \div g]

Zero == Rat(0, 1)

Lcm(a, b) == (a \div Gcd(a, b)) * b

\* Sums and comparisons go through the least common denominator and products
\* cancel crosswise first, which keeps the intermediate integers small.
RAdd(a, b) ==
    LET d == Lcm(a.d, b.d)
    IN  Rat(a.n * (d \div a.d) + b.n * (d \div b.d), d)

RSub(a, b) ==
    LET d == Lcm(a.d, b.d)
    IN  Rat(a.n * (d \div a.d) - b.n * (d \div b.d), d)

RMul(a, b) ==
    LET g == Gcd(Abs(a.n), b.d)
        h == Gcd(Abs(b.n), a.d)
    IN  Rat((a.n \div g) * (b.n \div h), (a.d \div h) * (b.d \div g))

\* a / b for b # 0 (every division of the program is guarded by a > 0 test)
RDiv(a, b) ==
    IF b.n > 0 THEN RMul(a, [n |-> b.d, d |-> b.n])
               ELSE RMul(a, [n |-> -b.d, d |-> -b.n])

RLt(a, b) ==
    LET d == Lcm(a.d, b.d)
    IN  a.n * (d \div a.d) < b.n * (d \div b.d)

RLeq(a, b) ==
    LET d == Lcm(a.d, b.d)
    IN  a.n * (d \div a.d) <= b.n * (d \div b.d)

(***************************************************************************)
(* Python values held by the inputs mapping, and float()                   *)
(***************************************************************************)
\* a number (int or float)
Num(r) == [kind |-> "num", v |-> r]

\* a str, as its sequence of characters
Str(s) == [kind |-> "str", s |-> s]

\* None
PyNone == [kind |-> "None"]

DigitVal ==
    "0" :> 0 @@ "1" :> 1 @@ "2" :> 2 @@ "3" :> 3 @@ "4" :> 4 @@
    "5" :> 5 @@ "6" :> 6 @@ "7" :> 7 @@ "8" :> 8 @@ "9" :> 9

IsDigit(c) == c \in DOMAIN DigitVal

RECURSIVE DigitsToNat(_)
DigitsToNat(ds) ==
    IF ds = <<>> THEN 0
    ELSE 10 * DigitsToNat(SubSeq(ds, 1, Len(ds) - 1)) + DigitVal[ds[Len(ds)]]

RECURSIVE Pow10(_)
Pow10(k) == IF k = 0 THEN 1 ELSE 10 * Pow10(k - 1)

\* float(x): a number converts to itself; a str is parsed as
\* [sign] digits [. digits] (the decimal forms over the characters the
\* model's strings are written in) and anything else in it raises
\* ValueError; None raises TypeError.
float(x) ==
    CASE x.kind = "num" -> [ok |-> TRUE, v |-> x.v]
      [] x.kind = "None" -> [ok |-> FALSE, exc |-> "TypeError"]
      [] x.kind = "str" ->
           LET signed == Len(x.s) > 0 /\ x.s[1] \in {"-", "+"}
               body   == IF signed THEN Tail(x.s) ELSE x.s
               points == {i \in 1..Len(body) : body[i] = "."}
               digits == SelectSeq(body, IsDigit)
               wellformed ==
                   /\ Cardinality(points) <= 1
                   /\ Len(digits) >= 1
                   /\ \A i \in 1..Len(body) : i \in points \/ IsDigit(body[i])
               decimals ==
                   IF points = {} THEN 0
                   ELSE Len(body) - (CHOOSE i \in points : TRUE)
               magnitude == Rat(DigitsToNat(digits), Pow10(decimals))
           IN  IF ~wellformed THEN [ok |-> FALSE, exc |-> "ValueError"]
               ELSE IF signed /\ x.s[1] = "-"
                    THEN [ok |-> TRUE, v |-> RSub(Zero, magnitude)]
                    ELSE [ok |-> TRUE, v |-> magnitude]

\* dict.get(key, default)
get(mapping, key, default) ==
    IF key \in DOMAIN mapping THEN mapping[key] ELSE default

\* mapping.copy() followed by update(changes)
update(mapping, changes) ==
    [k \in DOMAIN mapping \cup DOMAIN changes |->
        IF k \in DOMAIN changes THEN changes[k] ELSE mapping[k]]

(***************************************************************************)
(* Constants                                                               *)
(***************************************************************************)
FUEL_CONSUMPTION_PER_KM == Rat(35, 100)

DRIVER_COST_PER_HOUR == Rat(85, 1)

VEHICLE_OPERATING_COST_PER_KM == Rat(450, 100)

ADMIN_OVERHEAD_PERCENTAGE == Rat(8, 100)

(***************************************************************************)
(* calculate_costs_and_profit, one operator per assignment                 *)
(***************************************************************************)
InputKeys ==
    <<"distance", "load", "fuel_price", "toll_fees", "turnaround_time",
      "rate_per_ton">>

fuel_cost_PriceForgotten(distance, fuel_price) ==
    RMul(distance, FUEL_CONSUMPTION_PER_KM)

fuel_cost(distance, fuel_price) ==
    RMul(RMul(distance, FUEL_CONSUMPTION_PER_KM), fuel_price)

driver_cost_PerDay(turnaround_time) ==
    RMul(RDiv(turnaround_time, Rat(24, 1)), DRIVER_COST_PER_HOUR)

driver_cost(turnaround_time) == RMul(turnaround_time, DRIVER_COST_PER_HOUR)

vehicle_operating_cost(distance) ==
    RMul(distance, VEHICLE_OPERATING_COST_PER_KM)

admin_cost_ExcludingTolls(fuel, driver, vehicle, toll_fees) ==
    RMul(RAdd(RAdd(fuel, driver), vehicle), ADMIN_OVERHEAD_PERCENTAGE)

admin_cost(fuel, driver, vehicle, toll_fees) ==
    RMul(RAdd(RAdd(RAdd(fuel, driver), vehicle), toll_fees),
         ADMIN_OVERHEAD_PERCENTAGE)

total_cost_TollsTwice(fuel, driver, vehicle, toll_fees, admin) ==
    RAdd(RAdd(RAdd(RAdd(RAdd(fuel, driver), vehicle), toll_fees), admin),
         toll_fees)

total_cost(fuel, driver, vehicle, toll_fees, admin) ==
    RAdd(RAdd(RAdd(RAdd(fuel, driver), vehicle), toll_fees), admin)

total_revenue(load, rate_per_ton) == RMul(load, rate_per_ton)

profit(revenue, cost) == RSub(revenue, cost)

profit_margin_TotalLoss(profit_, revenue) ==
    IF RLt(Zero, revenue) THEN RMul(RDiv(profit_, revenue), Rat(100, 1))
    ELSE IF RLt(profit_, Zero) THEN Rat(-100, 1) ELSE Zero

profit_margin(profit_, revenue) ==
    IF RLt(Zero, revenue) THEN RMul(RDiv(profit_, revenue), Rat(100, 1))
                          ELSE Zero

cost_per_ton_WholeLoad(cost, load) ==
    IF RLt(Zero, load) THEN RDiv(cost, load) ELSE cost

cost_per_ton(cost, load) ==
    IF RLt(Zero, load) THEN RDiv(cost, load) ELSE Zero

recommended_rate_per_ton_TwoPercent(per_ton) == RMul(per_ton, Rat(102, 100))

recommended_rate_per_ton_MarginTarget(per_ton) == RDiv(per_ton, Rat(8, 10))

recommended_rate_per_ton(per_ton) == RMul(per_ton, Rat(12, 10))

recommended_rate_per_km_WholeTrip(revenue, distance) ==
    IF RLt(Zero, distance) THEN RDiv(revenue, distance) ELSE revenue

recommended_rate_per_km(revenue, distance) ==
    IF RLt(Zero, distance) THEN RDiv(revenue, distance) ELSE Zero

\* The six float(inputs.get(key, 0)) conversions, in source order.
Extracted(inputs_) ==
    [i \in 1..Len(InputKeys) |-> float(get(inputs_, InputKeys[i], Num(Zero)))]

\* The outcome of a call: exc = "none" and ret = <<the returned mapping>>,
\* or exc = the exception of the first conversion that fails and ret = <<>>.
calculate_costs_and_profit(inputs_) ==
    LET x      == Extracted(inputs_)
        failed == {i \in DOMAIN x : ~x[i].ok}
    IN  IF failed # {}
        THEN [exc |-> x[CHOOSE i \in failed : \A j \in failed : i <= j].exc,
              ret |-> <<>>]
        ELSE
          LET distance        == x[1].v
              load            == x[2].v
              fuel_price      == x[3].v
              toll_fees       == x[4].v
              turnaround_time == x[5].v
              rate_per_ton    == x[6].v
              fuel    == fuel_cost(distance, fuel_price)
              driver  == driver_cost(turnaround_time)
              vehicle == vehicle_operating_cost(distance)
              admin   == admin_cost(fuel, driver, vehicle, toll_fees)
              cost    == total_cost(fuel, driver, vehicle, toll_fees, admin)
              revenue == total_revenue(load, rate_per_ton)
              profit_ == profit(revenue, cost)
              per_ton == cost_per_ton(cost, load)
          IN  [exc |-> "none",
               ret |-> << [fuel_cost                |-> fuel,
                           driver_cost              |-> driver,
                           vehicle_operating_cost   |-> vehicle,
                           toll_fees                |-> toll_fees,
                           admin_cost               |-> admin,
                           total_cost               |-> cost,
                           total_revenue            |-> revenue,
                           profit                   |-> profit_,
                           profit_margin            |->
                               profit_margin(profit_, revenue),
                           cost_per_ton             |-> per_ton,
                           recommended_rate_per_ton |->
                               recommended_rate_per_ton(per_ton),
                           recommended_rate_per_km  |->
                               recommended_rate_per_km(revenue, distance)] >>]

(***************************************************************************)
(* get_cashflow_risk_analysis                                              *)
(***************************************************************************)
risk_levels_DailyMedium ==
    "Cash"    :> [risk |-> "Low",    color |-> "success", days |-> 0] @@
    "Daily"   :> [risk |-> "Medium", color |-> "warning", days |-> 1] @@
    "Weekly"  :> [risk |-> "Medium", color |-> "warning", days |-> 7] @@
    "Monthly" :> [risk |-> "High",   color |-> "danger",  days |-> 30]

risk_levels_MonthlyThreeDays ==
    "Cash"    :> [risk |-> "Low",    color |-> "success", days |-> 0] @@
    "Daily"   :> [risk |-> "Low",    color |-> "success", days |-> 1] @@
    "Weekly"  :> [risk |-> "Medium", color |-> "warning", days |-> 7] @@
    "Monthly" :> [risk |-> "High",   color |-> "danger",  days |-> 3]

risk_levels ==
    "Cash"    :> [risk |-> "Low",    color |-> "success", days |-> 0] @@
    "Daily"   :> [risk |-> "Low",    color |-> "success", days |-> 1] @@
    "Weekly"  :> [risk |-> "Medium", color |-> "warning", days |-> 7] @@
    "Monthly" :> [risk |-> "High",   color |-> "danger",  days |-> 30]

risk_info_FallbackMonthly(payment_terms_) ==
    get(risk_levels, payment_terms_, risk_levels["Monthly"])

risk_info(payment_terms_) ==
    get(risk_levels, payment_terms_, risk_levels["Weekly"])

opportunity_cost_PerYearOf360(cash_tied_up, days) ==
    RMul(RMul(cash_tied_up, RDiv(Rat(10, 100), Rat(360, 1))), Rat(days, 1))

\* A variant that adds the cash the session's last calculation tied up.
opportunity_cost_OnSessionTotal(cash_tied_up, days) ==
    LET earlier == IF session_state # <<>>
                   THEN session_state.last_results.cashflow_analysis
                            .cash_tied_up
                   ELSE Zero
    IN  RMul(RMul(RAdd(cash_tied_up, earlier),
                  RDiv(Rat(10, 100), Rat(365, 1))), Rat(days, 1))

opportunity_cost(cash_tied_up, days) ==
    RMul(RMul(cash_tied_up, RDiv(Rat(10, 100), Rat(365, 1))), Rat(days, 1))

get_cashflow_risk_analysis(payment_terms_, profit_, cost) ==
    LET info == risk_info(payment_terms_)
        cash_tied_up == cost
        opportunity == opportunity_cost(cash_tied_up, info.days)
    IN  [risk_level       |-> info.risk,
         color            |-> info.color,
         days_to_payment  |-> info.days,
         cash_tied_up     |-> cash_tied_up,
         opportunity_cost |-> opportunity,
         adjusted_profit  |-> RSub(profit_, opportunity)]

(***************************************************************************)
(* The engine as a state machine: a calculation request calls              *)
(* calculate_costs_and_profit on a mapping and, when it returned, calls    *)
(* get_cashflow_risk_analysis on its profit and total_cost.                *)
(***************************************************************************)
\* Input values are -1 and the multiples of 1/2 up to MaxHalves/2.
MaxHalves == 2

NumValues == {Rat(-1, 1)} \cup {Rat(k, 2) : k \in 0..MaxHalves}

KeySet == {InputKeys[i] : i \in DOMAIN InputKeys}

NumericMappings == [KeySet -> {Num(r) : r \in NumValues}]

\* The route of the page's "See Sample Calculation" text.
sample_route ==
    [distance        |-> Num(Rat(1400, 1)),
     load            |-> Num(Rat(25, 1)),
     fuel_price      |-> Num(Rat(2350, 100)),
     toll_fees       |-> Num(Rat(850, 1)),
     turnaround_time |-> Num(Rat(36, 1)),
     rate_per_ton    |-> Num(Rat(450, 1))]

\* Values that are not numbers: strings that float() parses, strings it
\* does not, and None.
OtherValues ==
    {Str(<<"1", ".", "5">>), Str(<<"-", "2">>), Str(<<"a", "b", "c">>),
     Str(<<>>), PyNone}

BaseMappings == [KeySet -> {Num(Zero), Num(Rat(1, 1))}]

\* One field of a numeric mapping replaced by a value that is not a number,
\* or left out of the mapping.
IrregularMappings ==
    {[b EXCEPT ![k] = o] : b \in BaseMappings, k \in KeySet, o \in OtherValues}
    \cup {[j \in KeySet \ {k} |-> b[j]] : b \in BaseMappings, k \in KeySet}

\* A caller that asks for a markup of its own has only the mapping to say so.
ConfiguredMappings ==
    {update(b, [target_markup_pct |-> Num(Rat(m, 1))]) :
        b \in BaseMappings \cup {sample_route}, m \in {20, 30}}

InputMappings ==
    NumericMappings \cup {sample_route} \cup IrregularMappings
        \cup ConfiguredMappings

PaymentTerms == {"Cash", "Daily", "Weekly", "Monthly"}

\* Strings that are not a key of risk_levels.
OtherTerms == {"Fortnightly", "weekly", ""}

\* A text value (its characters are never looked at).
Text(t) == [kind |-> "text", text |-> t]

\* What the widgets return in the first run of a session (lines 646-690).
default_widgets ==
    [loading_point    |-> "",
     offloading_point |-> "",
     distance         |-> Zero,
     load             |-> Zero,
     fuel_price       |-> Rat(2350, 100),
     toll_fees        |-> Zero,
     turnaround_time  |-> Zero,
     rate_per_ton     |-> Zero,
     payment_terms    |-> "Cash",
     calculate_button |-> FALSE]

\* Calculation requests that can be in progress at the same time.
MaxRequests == 2

Requests == 1..MaxRequests

\* A request that has not called yet (or has used its results).
idle_call ==
    [pc |-> "idle", inputs |-> <<>>, payment_terms |-> "",
     results |-> <<>>, cashflow_analysis |-> <<>>]

\* No function is running in the frame: no local is bound.
no_frame ==
    [inputs |-> <<>>,
     distance |-> Zero, load |-> Zero, fuel_price |-> Zero,
     toll_fees |-> Zero, turnaround_time |-> Zero, rate_per_ton |-> Zero,
     fuel_cost |-> Zero, driver_cost |-> Zero,
     vehicle_operating_cost |-> Zero, admin_cost |-> Zero,
     total_cost |-> Zero, total_revenue |-> Zero, profit |-> Zero,
     profit_margin |-> Zero,
     payment_terms |-> "", risk_info |-> <<>>]

Init ==
    /\ pc = "idle"
    /\ inputs = <<>>
    /\ exception = "none"
    /\ results = <<>>
    /\ payment_terms = <<>>
    /\ cashflow_analysis = <<>>
    /\ widgets = <<>>
    /\ sliders = <<>>
    /\ scenario = <<>>
    /\ exports = <<>>
    /\ session_state = <<>>
    /\ session_before = <<>>
    /\ calls = [request \in Requests |-> idle_call]
    /\ frames = [request \in Requests |-> no_frame]
    /\ slip = <<>>
    /\ view = [screen |-> "none", exception |-> "none", stored |-> FALSE]

\* results = calculate_costs_and_profit(inputs), a fresh request
Calculate(inputs_) ==
    LET outcome == calculate_costs_and_profit(inputs_)
    IN  /\ inputs' = inputs_
        /\ exception' = outcome.exc
        /\ results' = outcome.ret
        /\ pc' = IF outcome.exc = "none" THEN "returned" ELSE "raised"
        /\ payment_terms' = <<>>
        /\ cashflow_analysis' = <<>>
        /\ UNCHANGED <<page_vars, request_vars, slip_vars>>

\* cashflow_analysis = get_cashflow_risk_analysis(payment_terms,
\*                         results['profit'], results['total_cost'])
AnalyseRisk(payment_terms_) ==
    /\ pc = "returned"
    /\ payment_terms = <<>>
    /\ payment_terms' = <<payment_terms_>>
    /\ cashflow_analysis' =
           <<get_cashflow_risk_analysis(payment_terms_, results[1].profit,
                                        results[1].total_cost)>>
    /\ UNCHANGED <<pc, inputs, exception, results>>
    /\ UNCHANGED <<page_vars, request_vars, slip_vars>>

\* The request is over: its value objects belong to it alone and go with it.
Finish ==
    /\ pc # "idle"
    /\ pc' = "idle"
    /\ inputs' = <<>>
    /\ exception' = "none"
    /\ results' = <<>>
    /\ payment_terms' = <<>>
    /\ cashflow_analysis' = <<>>
    /\ UNCHANGED <<page_vars, request_vars, slip_vars>>

\* A request begins: some caller passes some mapping.
Request == pc = "idle" /\ \E inputs_ \in InputMappings : Calculate(inputs_)

Next ==
    \/ Request
    \/ \E payment_terms_ \in PaymentTerms \cup OtherTerms :
           AnalyseRisk(payment_terms_)
    \/ Finish

Spec == Init /\ [][Next]_vars

(***************************************************************************)
(* The page: main().  Streamlit runs the script from top to bottom on      *)
(* every user interaction; the widget calls return what the user has set,  *)
(* st.button returns TRUE in the run its click caused.  Which returns a    *)
(* run can see is Streamlit's business, which is not part of this          *)
(* repository: a run of the model may see any return a widget call allows  *)
(* (number inputs from their min_value on, a slider anywhere in its range, *)
(* the button either way).  Between two runs only session_state is kept.   *)
(***************************************************************************)
\* all([distance, load, fuel_price, turnaround_time, rate_per_ton]):
\* a number is true when it is not 0
required_fields_LoadForgotten(distance, load, fuel_price, turnaround_time, rate_per_ton) ==
    \A x \in {distance, fuel_price, turnaround_time, rate_per_ton} : x # Zero

required_fields(distance, load, fuel_price, turnaround_time, rate_per_ton) ==
    \A x \in {distance, load, fuel_price, turnaround_time, rate_per_ton} :
        x # Zero

\* inputs = {...} of lines 698-708
page_inputs(w) ==
    [loading_point    |-> Text(w.loading_point),
     offloading_point |-> Text(w.offloading_point),
     distance         |-> Num(w.distance),
     load             |-> Num(w.load),
     fuel_price       |-> Num(w.fuel_price),
     toll_fees        |-> Num(w.toll_fees),
     turnaround_time  |-> Num(w.turnaround_time),
     rate_per_ton     |-> Num(w.rate_per_ton),
     payment_terms    |-> Text(w.payment_terms)]

\* The arguments of the four st.slider calls, in source order.
slider_calls(w) ==
    <<[key |-> "sim_fuel", min_value |-> Rat(15, 1), max_value |-> Rat(35, 1),
       value |-> w.fuel_price, step |-> Rat(1, 2)],
      [key |-> "sim_rate", min_value |-> Zero,
       max_value |-> RMul(w.rate_per_ton, Rat(2, 1)),
       value |-> w.rate_per_ton, step |-> Rat(10, 1)],
      [key |-> "sim_load", min_value |-> Rat(1, 10),
       max_value |-> RMul(w.load, Rat(2, 1)),
       value |-> w.load, step |-> Rat(1, 10)],
      [key |-> "sim_toll", min_value |-> Zero,
       max_value |-> IF RLt(Zero, w.toll_fees)
                     THEN RMul(w.toll_fees, Rat(2, 1)) ELSE Rat(1000, 1),
       value |-> w.toll_fees, step |-> Rat(50, 1)]>>

\* st.slider raises StreamlitAPIException for a default value outside
\* [min_value, max_value].
slider_accepts(call) ==
    RLeq(call.min_value, call.value) /\ RLeq(call.value, call.max_value)

\* Slider positions: the default and the first MaxSliderSteps steps up from
\* the minimum.
MaxSliderSteps == 1

\* What st.slider can return: its default value or a position of its range.
slider(call) ==
    {call.value} \cup
    {v \in {RAdd(call.min_value, RMul(Rat(k, 1), call.step)) :
                k \in 0..MaxSliderSteps} : RLeq(v, call.max_value)}

\* The mapping of lines 909-914.
scenario_changes_LoadForgotten(sim_fuel_price, sim_rate_per_ton, sim_load, sim_toll_fees) ==
    [fuel_price   |-> Num(sim_fuel_price),
     rate_per_ton |-> Num(sim_rate_per_ton),
     toll_fees    |-> Num(sim_toll_fees)]

scenario_changes(sim_fuel_price, sim_rate_per_ton, sim_load, sim_toll_fees) ==
    [fuel_price   |-> Num(sim_fuel_price),
     rate_per_ton |-> Num(sim_rate_per_ton),
     load         |-> Num(sim_load),
     toll_fees    |-> Num(sim_toll_fees)]

\* sim_inputs = inputs.copy(); sim_inputs.update(changes): the update goes
\* to the copy, inputs stays what it was.
what_if_inputs_NoCopy(inputs_, changes) ==
    [inputs |-> update(inputs_, changes),
     sim_inputs |-> update(inputs_, changes)]

what_if_inputs(inputs_, changes) ==
    [inputs |-> inputs_, sim_inputs |-> update(inputs_, changes)]

\* f"{x:.2f}", f"{x:.1f}": the decimal with that many places nearest to x,
\* a tie going to the even last digit; the text is stood for by its value.
format_fixed(x, places) ==
    LET scaled == x.n * Pow10(places)
        q == scaled \div x.d
        r == scaled % x.d
        nearest == IF 2 * r > x.d THEN q + 1
                   ELSE IF 2 * r = x.d THEN q + (q % 2)
                   ELSE q
    IN  Rat(nearest, Pow10(places))

\* The delta= texts of the four scenario metrics, lines 919-926.
metric_deltas_OfScenarioAlone(sim_results, results_) ==
    [revenue |-> format_fixed(sim_results.total_revenue, 2),
     cost    |-> format_fixed(sim_results.total_cost, 2),
     profit  |-> format_fixed(sim_results.profit, 2),
     margin  |-> format_fixed(sim_results.profit_margin, 1)]

metric_deltas(sim_results, results_) ==
    [revenue |-> format_fixed(RSub(sim_results.total_revenue,
                                   results_.total_revenue), 2),
     cost    |-> format_fixed(RSub(sim_results.total_cost,
                                   results_.total_cost), 2),
     profit  |-> format_fixed(RSub(sim_results.profit, results_.profit), 2),
     margin  |-> format_fixed(RSub(sim_results.profit_margin,
                                   results_.profit_margin), 1)]

\* What the number inputs, the select box and the button can return.
WidgetValues ==
    [loading_point    : {"Johannesburg"},
     offloading_point : {"Cape Town"},
     distance         : {Zero, Rat(1400, 1)},
     load             : {Zero, Rat(1, 20), Rat(25, 1)},
     fuel_price       : {Zero, Rat(10, 1), Rat(2350, 100)},
     toll_fees        : {Zero, Rat(850, 1)},
     turnaround_time  : {Zero, Rat(36, 1)},
     rate_per_ton     : {Zero, Rat(450, 1)},
     payment_terms    : PaymentTerms,
     calculate_button : BOOLEAN]
    \cup {default_widgets}

\* What the exports are made from and session_state['last_results'] keeps
\* (lines 941, 953 and 966-970).
report_Scenario ==
    [inputs |-> inputs, results |-> scenario[1].sim_results,
     cashflow_analysis |-> cashflow_analysis[1]]

report ==
    [inputs |-> inputs, results |-> results[1],
     cashflow_analysis |-> cashflow_analysis[1]]

\* Lines 696-970: the button was pressed and the required fields are filled.
ShowResults(w) ==
    /\ pc' = "returned"
    /\ exception' = "none"
    /\ results' = <<calculate_costs_and_profit(page_inputs(w)).ret[1]>>
    /\ payment_terms' = <<w.payment_terms>>
    /\ cashflow_analysis' =
           <<get_cashflow_risk_analysis(w.payment_terms, results'[1].profit,
                                        results'[1].total_cost)>>
    /\ IF \E i \in DOMAIN slider_calls(w) :
               ~slider_accepts(slider_calls(w)[i])
       THEN \* the run ends in the what-if section, the results shown
            /\ inputs' = page_inputs(w)
            /\ sliders' = <<>>
            /\ scenario' = <<>>
            /\ exports' = <<>>
            /\ session_state' = session_state
            /\ view' = [screen |-> "results",
                        exception |-> "StreamlitAPIException",
                        stored |-> FALSE]
       ELSE \E sim_fuel_price \in slider(slider_calls(w)[1]),
               sim_rate_per_ton \in slider(slider_calls(w)[2]),
               sim_load \in slider(slider_calls(w)[3]),
               sim_toll_fees \in slider(slider_calls(w)[4]) :
            LET what_if ==
                    what_if_inputs(page_inputs(w),
                        scenario_changes(sim_fuel_price, sim_rate_per_ton,
                                         sim_load, sim_toll_fees))
            IN  /\ inputs' = what_if.inputs
                /\ sliders' = <<[sim_fuel_price   |-> sim_fuel_price,
                                 sim_rate_per_ton |-> sim_rate_per_ton,
                                 sim_load         |-> sim_load,
                                 sim_toll_fees    |-> sim_toll_fees]>>
                /\ scenario' =
                       <<[sim_inputs  |-> what_if.sim_inputs,
                          sim_results |->
                              calculate_costs_and_profit(what_if.sim_inputs)
                                  .ret[1]]>>
                /\ exports' = <<[excel_data |-> report',
                                 pdf_data   |-> report']>>
                /\ session_state' =
                       update(session_state, [last_results |-> report'])
                /\ view' = [screen |-> "results", exception |-> "none",
                            stored |-> TRUE]

\* Lines 972-1049: the error, or the welcome state.
ShowNoResults(w) ==
    /\ pc' = "idle"
    /\ exception' = "none"
    /\ inputs' = <<>>
    /\ results' = <<>>
    /\ payment_terms' = <<>>
    /\ cashflow_analysis' = <<>>
    /\ sliders' = <<>>
    /\ scenario' = <<>>
    /\ exports' = <<>>
    /\ session_state' = session_state
    /\ view' = [screen |-> IF w.calculate_button THEN "error" ELSE "welcome",
                exception |-> "none", stored |-> FALSE]

\* One run of main().
PageRun(w) ==
    /\ widgets = <<>>
    /\ widgets' = <<w>>
    /\ session_before' = <<session_state>>
    /\ UNCHANGED <<request_vars, slip_vars>>
    /\ IF /\ w.calculate_button
          /\ required_fields(w.distance, w.load, w.fuel_price,
                             w.turnaround_time, w.rate_per_ton)
       THEN ShowResults(w)
       ELSE ShowNoResults(w)

\* The run is over: its locals are gone, what it showed stays on the screen
\* and session_state stays in the session.
EndRun ==
    /\ widgets # <<>>
    /\ widgets' = <<>>
    /\ session_before' = <<>>
    /\ pc' = "idle"
    /\ exception' = "none"
    /\ inputs' = <<>>
    /\ results' = <<>>
    /\ payment_terms' = <<>>
    /\ cashflow_analysis' = <<>>
    /\ sliders' = <<>>
    /\ scenario' = <<>>
    /\ exports' = <<>>
    /\ UNCHANGED <<session_state, view, request_vars, slip_vars>>

\* The user interacts with the page and Streamlit runs main().
main == widgets = <<>> /\ \E w \in WidgetValues : PageRun(w)

NextPage == main \/ EndRun

SpecPage == Init /\ [][NextPage]_vars

(***************************************************************************)
(* Concurrent requests.  Each request is a thread that calls               *)
(* calculate_costs_and_profit and then get_cashflow_risk_analysis; the     *)
(* threads' statements interleave in any order.  A call binds its          *)
(* parameters and locals in a frame of its own; the module constants are   *)
(* never assigned.  The requests pass mappings float() accepts.            *)
(***************************************************************************)
\* The frame a request's call runs in: its own.
frame_Shared(request) == 1

frame(request) == request

\* What the requests pass.
RequestInputs ==
    {sample_route,
     update(sample_route, [fuel_price |-> Num(Rat(20, 1))]),
     update(sample_route, [load |-> Num(Zero), toll_fees |-> Num(Zero)])}

RequestTerms == {"Cash", "Monthly"}

\* results = calculate_costs_and_profit(inputs): the call binds inputs.
Call(request, inputs_, payment_terms_) ==
    /\ calls[request].pc = "idle"
    /\ calls' = [calls EXCEPT ![request] =
                    [idle_call EXCEPT !.pc = "extract", !.inputs = inputs_,
                                      !.payment_terms = payment_terms_]]
    /\ frames' = [frames EXCEPT ![frame(request)] =
                      [no_frame EXCEPT !.inputs = inputs_]]
    /\ UNCHANGED <<engine_vars, page_vars, slip_vars>>

\* Lines 377-382: the six conversions.
Extract(request) ==
    /\ calls[request].pc = "extract"
    /\ LET x == Extracted(frames[frame(request)].inputs)
       IN  frames' = [frames EXCEPT ![frame(request)] =
                         [@ EXCEPT !.distance = x[1].v,
                                   !.load = x[2].v,
                                   !.fuel_price = x[3].v,
                                   !.toll_fees = x[4].v,
                                   !.turnaround_time = x[5].v,
                                   !.rate_per_ton = x[6].v]]
    /\ calls' = [calls EXCEPT ![request].pc = "costs"]
    /\ UNCHANGED <<engine_vars, page_vars, slip_vars>>

\* Lines 385-390: the cost components and their total.
Costs(request) ==
    /\ calls[request].pc = "costs"
    /\ LET f == frames[frame(request)]
           fuel    == fuel_cost(f.distance, f.fuel_price)
           driver  == driver_cost(f.turnaround_time)
           vehicle == vehicle_operating_cost(f.distance)
           admin   == admin_cost(fuel, driver, vehicle, f.toll_fees)
       IN  frames' = [frames EXCEPT ![frame(request)] =
                         [@ EXCEPT !.fuel_cost = fuel,
                                   !.driver_cost = driver,
                                   !.vehicle_operating_cost = vehicle,
                                   !.admin_cost = admin,
                                   !.total_cost =
                                       total_cost(fuel, driver, vehicle,
                                                  f.toll_fees, admin)]]
    /\ calls' = [calls EXCEPT ![request].pc = "profit"]
    /\ UNCHANGED <<engine_vars, page_vars, slip_vars>>

\* Lines 393-397: revenue, profit and margin.
Profitability(request) ==
    /\ calls[request].pc = "profit"
    /\ LET f == frames[frame(request)]
           revenue == total_revenue(f.load, f.rate_per_ton)
           profit_ == profit(revenue, f.total_cost)
       IN  frames' = [frames EXCEPT ![frame(request)] =
                         [@ EXCEPT !.total_revenue = revenue,
                                   !.profit = profit_,
                                   !.profit_margin =
                                       profit_margin(profit_, revenue)]]
    /\ calls' = [calls EXCEPT ![request].pc = "return"]
    /\ UNCHANGED <<engine_vars, page_vars, slip_vars>>

\* Lines 400-417: the recommendations and the return; the frame is gone.
Return(request) ==
    /\ calls[request].pc = "return"
    /\ LET f == frames[frame(request)]
           per_ton == cost_per_ton(f.total_cost, f.load)
       IN  calls' = [calls EXCEPT
               ![request].pc = "risk",
               ![request].results =
                   <<[fuel_cost                |-> f.fuel_cost,
                      driver_cost              |-> f.driver_cost,
                      vehicle_operating_cost   |-> f.vehicle_operating_cost,
                      toll_fees                |-> f.toll_fees,
                      admin_cost               |-> f.admin_cost,
                      total_cost               |-> f.total_cost,
                      total_revenue            |-> f.total_revenue,
                      profit                   |-> f.profit,
                      profit_margin            |-> f.profit_margin,
                      cost_per_ton             |-> per_ton,
                      recommended_rate_per_ton |->
                          recommended_rate_per_ton(per_ton),
                      recommended_rate_per_km  |->
                          recommended_rate_per_km(f.total_revenue,
                                                  f.distance)]>>]
    /\ frames' = [frames EXCEPT ![frame(request)] = no_frame]
    /\ UNCHANGED <<engine_vars, page_vars, slip_vars>>

\* get_cashflow_risk_analysis(payment_terms, profit, total_cost) is called;
\* lines 422-429: the table and the lookup.
RiskLookup(request) ==
    /\ calls[request].pc = "risk"
    /\ frames' = [frames EXCEPT ![frame(request)] =
                      [no_frame EXCEPT
                          !.payment_terms = calls[request].payment_terms,
                          !.profit = calls[request].results[1].profit,
                          !.total_cost = calls[request].results[1].total_cost,
                          !.risk_info =
                              <<risk_info(calls[request].payment_terms)>>]]
    /\ calls' = [calls EXCEPT ![request].pc = "opportunity"]
    /\ UNCHANGED <<engine_vars, page_vars, slip_vars>>

\* Lines 431-444: cash tied up, opportunity cost and the return.
Opportunity(request) ==
    /\ calls[request].pc = "opportunity"
    /\ LET f == frames[frame(request)]
           info == f.risk_info[1]
           cash_tied_up == f.total_cost
           opportunity == opportunity_cost(cash_tied_up, info.days)
       IN  calls' = [calls EXCEPT
               ![request].pc = "done",
               ![request].cashflow_analysis =
                   <<[risk_level       |-> info.risk,
                      color            |-> info.color,
                      days_to_payment  |-> info.days,
                      cash_tied_up     |-> cash_tied_up,
                      opportunity_cost |-> opportunity,
                      adjusted_profit  |-> RSub(f.profit, opportunity)]>>]
    /\ frames' = [frames EXCEPT ![frame(request)] = no_frame]
    /\ UNCHANGED <<engine_vars, page_vars, slip_vars>>

\* The request has used its results; its thread may call again.
Release(request) ==
    /\ calls[request].pc = "done"
    /\ calls' = [calls EXCEPT ![request] = idle_call]
    /\ UNCHANGED <<frames, engine_vars, page_vars, slip_vars>>

Step(request) ==
    \/ \E inputs_ \in RequestInputs, payment_terms_ \in RequestTerms :
           Call(request, inputs_, payment_terms_)
    \/ Extract(request)
    \/ Costs(request)
    \/ Profitability(request)
    \/ Return(request)
    \/ RiskLookup(request)
    \/ Opportunity(request)
    \/ Release(request)

NextConcurrent == \E request \in Requests : Step(request)

SpecConcurrent == Init /\ [][NextConcurrent]_vars

(***************************************************************************)
(* The slip extractor: src/image_to_report_manual.py.                      *)
(*                                                                         *)
(* Regular expressions.  re.search tries the start positions from left to  *)
(* right and, at a start, the alternatives in the order backtracking       *)
(* tries them: first alternative first, a repetition as long as possible   *)
(* first.  Match lists the ways a pattern matches at a position in that    *)
(* order, so the match re.search reports is the head of the list at the    *)
(* leftmost start where the list is not empty.  A text is its sequence of  *)
(* characters.                                                             *)
(***************************************************************************)
UpperLetters ==
    <<"A", "B", "C", "D", "E", "F", "G", "H", "I", "J", "K", "L", "M", "N",
      "O", "P", "Q", "R", "S", "T", "U", "V", "W", "X", "Y", "Z">>

LowerLetters ==
    <<"a", "b", "c", "d", "e", "f", "g", "h", "i", "j", "k", "l", "m", "n",
      "o", "p", "q", "r", "s", "t", "u", "v", "w", "x", "y", "z">>

Range(f) == {f[i] : i \in DOMAIN f}

Index(f, c) == CHOOSE i \in DOMAIN f : f[i] = c

\* str.upper() of a character, and the other case of a letter
upper(c) ==
    IF c \in Range(LowerLetters) THEN UpperLetters[Index(LowerLetters, c)]
    ELSE c

swapcase(c) ==
    IF c \in Range(LowerLetters) THEN UpperLetters[Index(LowerLetters, c)]
    ELSE IF c \in Range(UpperLetters)
         THEN LowerLetters[Index(UpperLetters, c)]
         ELSE c

\* The classes \d, \s, [A-Z], [A-Za-z] and what \b takes for a word character
Digits == DOMAIN DigitVal

Spaces == {" ", "\n", "\t"}

Capitals == Range(UpperLetters)

Letters == Range(UpperLetters) \cup Range(LowerLetters)

WordCharacters == Letters \cup Digits \cup {"_"}

\* Pattern constructors: a character class, a literal, a sequence, an
\* alternation, a greedy repetition {min,max} (max = -1: no upper limit),
\* a capturing group, \b.
Cls(set) == [op |-> "cls", set |-> set]

Cat(parts) == [op |-> "seq", parts |-> parts]

Lit(chars) == Cat([i \in DOMAIN chars |-> Cls({chars[i]})])

Alt(parts) == [op |-> "alt", parts |-> parts]

Rep(re, min, max) == [op |-> "rep", re |-> re, min |-> min, max |-> max]

Opt(re) == Rep(re, 0, 1)

Star(re) == Rep(re, 0, -1)

Plus(re) == Rep(re, 1, -1)

Grp(idx, re) == [op |-> "grp", idx |-> idx, re |-> re]

WordBoundary == [op |-> "b"]

\* The character at a position is a word character (none outside the text).
IsWordAt(text, pos) ==
    pos >= 1 /\ pos <= Len(text) /\ text[pos] \in WordCharacters

RECURSIVE Match(_, _, _, _)
RECURSIVE MatchAll(_, _, _, _)
RECURSIVE MatchSeq(_, _, _, _, _)
RECURSIVE MatchAlt(_, _, _, _, _)
RECURSIVE MatchRep(_, _, _, _, _)
RECURSIVE MatchRepAll(_, _, _, _, _)

\* The ways re matches text from the matching state s = [pos, caps], as the
\* states after the match, in backtracking order; ic: re.IGNORECASE.
Match(re, text, s, ic) ==
    CASE re.op = "cls" ->
           IF /\ s.pos <= Len(text)
              /\ \/ text[s.pos] \in re.set
                 \/ ic /\ swapcase(text[s.pos]) \in re.set
           THEN <<[s EXCEPT !.pos = @ + 1]>>
           ELSE <<>>
      [] re.op = "b" ->
           IF IsWordAt(text, s.pos - 1) # IsWordAt(text, s.pos)
           THEN <<s>> ELSE <<>>
      [] re.op = "seq" -> MatchSeq(re.parts, 1, text, <<s>>, ic)
      [] re.op = "alt" -> MatchAlt(re.parts, 1, text, s, ic)
      [] re.op = "rep" -> MatchRep(re, 0, text, s, ic)
      [] re.op = "grp" ->
           LET inner == Match(re.re, text, s, ic)
           IN  [i \in DOMAIN inner |->
                   [inner[i] EXCEPT !.caps[re.idx] =
                       <<SubSeq(text, s.pos, inner[i].pos - 1)>>]]

MatchAll(re, text, states, ic) ==
    IF states = <<>> THEN <<>>
    ELSE Match(re, text, Head(states), ic)
             \o MatchAll(re, text, Tail(states), ic)

MatchSeq(parts, k, text, states, ic) ==
    IF k > Len(parts) THEN states
    ELSE MatchSeq(parts, k + 1, text,
                  MatchAll(parts[k], text, states, ic), ic)

MatchAlt(parts, k, text, s, ic) ==
    IF k > Len(parts) THEN <<>>
    ELSE Match(parts[k], text, s, ic)
             \o MatchAlt(parts, k + 1, text, s, ic)

MatchRep(re, count, text, s, ic) ==
    LET Advances(t) == t.pos > s.pos
        more == IF re.max = -1 \/ count < re.max
                THEN MatchRepAll(re, count + 1, text,
                         SelectSeq(Match(re.re, text, s, ic), Advances), ic)
                ELSE <<>>
    IN  more \o (IF count >= re.min THEN <<s>> ELSE <<>>)

MatchRepAll(re, count, text, states, ic) ==
    IF states = <<>> THEN <<>>
    ELSE MatchRep(re, count, text, Head(states), ic)
             \o MatchRepAll(re, count, text, Tail(states), ic)

\* A match that has started at pos with no group set.
MatchFrom(re, text, pos, ic) ==
    Match(re, text, [pos |-> pos, caps |-> <<<<>>, <<>>>>], ic)

\* re.search(pattern, text, flags): <<>> for None, or <<the match>> with
\* group() and the groups 1 and 2 (each <<>> for a group that is not set).
search(re, text, ic) ==
    LET starts == {pos \in 1..(Len(text) + 1) :
                      MatchFrom(re, text, pos, ic) # <<>>}
    IN  IF starts = {} THEN <<>>
        ELSE LET start == CHOOSE pos \in starts :
                              \A other \in starts : pos <= other
                 m == Head(MatchFrom(re, text, start, ic))
             IN  <<[group  |-> SubSeq(text, start, m.pos - 1),
                    groups |-> m.caps]>>

(***************************************************************************)
(* extract_data_from_image, lines 58-135                                   *)
(***************************************************************************)
\* \d{n}
D(n) == Rep(Cls(Digits), n, n)

DateSeparator == Cls({"/", "-"})

\* Lines 74-79; re.findall(pattern, text), no flags.
date_patterns ==
    <<Cat(<<WordBoundary, D(2), DateSeparator, D(2), DateSeparator, D(4),
            WordBoundary>>),
      Cat(<<WordBoundary, D(4), DateSeparator, D(2), DateSeparator, D(2),
            WordBoundary>>),
      Cat(<<WordBoundary, D(2), Cls(Spaces), Rep(Cls(Letters), 3, 3),
            Cls(Spaces), D(4), WordBoundary>>),
      Cat(<<WordBoundary, Rep(Cls(Letters), 3, 3), Cls(Spaces), D(2),
            Cls({","}), Cls(Spaces), D(4), WordBoundary>>)>>

\* Lines 88-93; re.search(pattern, text, re.IGNORECASE).
truck_patterns ==
    <<Cat(<<WordBoundary, Rep(Cls(Capitals), 2, 3), Opt(Cls(Spaces)),
            Rep(Cls(Digits), 3, 6), Opt(Cls(Spaces)),
            Rep(Cls(Capitals), 0, 2), WordBoundary>>),
      Cat(<<WordBoundary, Rep(Cls(Capitals), 2, 2), D(3),
            Rep(Cls(Capitals), 2, 2), WordBoundary>>),
      Cat(<<Alt(<<Lit(<<"T", "R", "U", "C", "K">>),
             Lit(<<"R", "E", "G">>),
             Lit(<<"V", "E", "H", "I", "C", "L", "E">>)>>),
            Star(Cls(Spaces \cup {":", "-"})),
            Grp(1, Plus(Cls(Capitals \cup Digits \cup Spaces)))>>),
      Cat(<<WordBoundary, D(3), Rep(Cls(Capitals), 2, 2), D(3),
            WordBoundary>>)>>

\* (\d+\.?\d*)
Number == Grp(1, Cat(<<Plus(Cls(Digits)), Opt(Cls({"."})), Star(Cls(Digits))>>))

\* Lines 102-106; re.search(pattern, text, re.IGNORECASE).  The third
\* pattern has one group only.
quantity_patterns ==
    <<[groups |-> 2,
       re |-> Cat(<<Alt(<<Lit(<<"L", "I", "T", "E", "R", "S">>),
                    Lit(<<"L", "I", "T", "R", "E", "S">>),
                    Lit(<<"Q", "T", "Y">>),
                    Lit(<<"Q", "U", "A", "N", "T", "I", "T", "Y">>),
                    Lit(<<"A", "M", "O", "U", "N", "T">>)>>),
                    Star(Cls(Spaces \cup {":", "-"})),
                    Number, Star(Cls(Spaces)),
                    Grp(2, Alt(<<Lit(<<"L">>), Lit(<<"K", "G">>),
                                 Lit(<<"T">>),
                                 Cat(<<Lit(<<"T", "O", "N">>),
                                       Opt(Lit(<<"S">>))>>)>>))>>)],
      [groups |-> 2,
       re |-> Cat(<<WordBoundary, Number, Star(Cls(Spaces)),
                    Grp(2, Alt(<<Lit(<<"L">>), Lit(<<"L", "T", "R">>),
                                 Cat(<<Lit(<<"L", "I", "T", "E", "R">>),
                                       Opt(Lit(<<"S">>))>>),
                                 Lit(<<"K", "G">>), Lit(<<"K", "G", "S">>),
                                 Cat(<<Lit(<<"T", "O", "N">>),
                                       Opt(Lit(<<"S">>))>>),
                                 Lit(<<"T">>)>>)),
                    WordBoundary>>)],
      [groups |-> 1,
       re |-> Cat(<<WordBoundary, Number, Star(Cls(Spaces)),
                    Alt(<<Lit(<<"L">>), Lit(<<"K", "G">>), Lit(<<"T">>)>>),
                    WordBoundary>>)]>>

SlipCharacters == Capitals \cup Digits \cup {"-"}

\* Lines 118-123; re.search(pattern, text), no flags.
slip_patterns ==
    <<Cat(<<Alt(<<Lit(<<"S", "L", "I", "P">>),
             Lit(<<"R", "E", "F">>),
             Lit(<<"D", "O", "C">>),
             Lit(<<"I", "N", "V">>)>>),
            Star(Cls(Spaces \cup {"#", ":", "-"})),
            Grp(1, Rep(Cls(SlipCharacters), 5, -1))>>),
      Cat(<<WordBoundary, Rep(Cls(Capitals), 2, 3),
            Rep(Cls(Digits), 5, -1), WordBoundary>>),
      Cat(<<WordBoundary, Rep(Cls(Digits), 5, -1), WordBoundary>>),
      Cat(<<WordBoundary, Rep(Cls(SlipCharacters), 8, -1), WordBoundary>>)>>

\* for pattern in patterns: ... if match: ... break -- the first pattern of
\* the list that matches, with its match: <<>> or <<[k, match]>>.
first_match(patterns, text, ic) ==
    LET hits == {k \in DOMAIN patterns : search(patterns[k], text, ic) # <<>>}
    IN  IF hits = {} THEN <<>>
        ELSE LET k == CHOOSE h \in hits : \A other \in hits : h <= other
             IN  <<[k |-> k, match |-> search(patterns[k], text, ic)[1]]>>

\* str.strip()
RECURSIVE strip(_)
strip(chars) ==
    IF chars # <<>> /\ Head(chars) \in Spaces THEN strip(Tail(chars))
    ELSE IF chars # <<>> /\ chars[Len(chars)] \in Spaces
         THEN strip(SubSeq(chars, 1, Len(chars) - 1))
         ELSE chars

\* str.upper()
upper_str(chars) == [i \in DOMAIN chars |-> upper(chars[i])]

\* part in chars, for strings
contains(chars, part) ==
    \E i \in 1..(Len(chars) - Len(part) + 1) :
        SubSeq(chars, i, i + Len(part) - 1) = part

\* Line 112: unit = match.group(2).upper() if match.group(2) else ''
\* (for a match of one of the first two patterns).
unit_of(match) ==
    IF match.groups[2] # <<>> /\ match.groups[2][1] # <<>>
    THEN upper_str(match.groups[2][1])
    ELSE <<>>

\* Line 113: if 'T' in unit or 'KG' in unit
is_tons(unit) == contains(unit, <<"T">>) \/ contains(unit, <<"K", "G">>)

\* Lines 65-71
empty_result ==
    [date |-> <<>>, truck_id |-> <<>>, quantity |-> <<>>,
     quantity_type |-> "litres", slip_number |-> <<>>]

\* An image is the text pytesseract.image_to_string reads from it, or
\* unreadable: image_to_string raises.  The outcome of the call is
\* ret = <<the result>>, or ret = <<>> for None after an exception; unit is
\* <<>> or <<the unit of line 112>>.
extract_data_from_image(image) ==
    IF ~image.readable
    THEN [ret |-> <<>>, unit |-> <<>>, exc |-> "TesseractError"]
    ELSE
      LET text     == image.text
          date     == first_match(date_patterns, text, FALSE)
          truck    == first_match(truck_patterns, text, TRUE)
          quantity == first_match([k \in DOMAIN quantity_patterns |->
                                      quantity_patterns[k].re], text, TRUE)
          slip_no  == first_match(slip_patterns, text, FALSE)
      IN  IF quantity # <<>> /\ quantity_patterns[quantity[1].k].groups < 2
          THEN \* match.group(2): IndexError, no such group
               [ret |-> <<>>, unit |-> <<>>, exc |-> "IndexError"]
          ELSE
            LET unit == IF quantity = <<>> THEN <<>>
                        ELSE <<unit_of(quantity[1].match)>>
            IN  [ret |->
                   <<[date |-> IF date = <<>> THEN <<>>
                               ELSE date[1].match.group,
                      truck_id |-> IF truck = <<>> THEN <<>>
                                   ELSE strip(truck[1].match.group),
                      quantity |-> IF quantity = <<>> THEN <<>>
                                   ELSE quantity[1].match.groups[1][1],
                      quantity_type |->
                          IF unit # <<>> /\ is_tons(unit[1])
                          THEN "tons" ELSE "litres",
                      slip_number |-> IF slip_no = <<>> THEN <<>>
                                      ELSE slip_no[1].match.group]>>,
                 unit |-> unit, exc |-> "none"]

(***************************************************************************)
(* The slip extractor page: the script of image_to_report_manual.py, run   *)
(* from top to bottom on every interaction.  As for the estimator page, a  *)
(* run may see any return its widgets allow; the form's text inputs return *)
(* what the user typed or, untouched, their defaults.  pandas and the      *)
(* Excel writer are not part of this repository: once the report row is    *)
(* built, the Excel generation of lines 221-243 either shows the download  *)
(* and the preview or ends the run with an exception.                      *)
(***************************************************************************)
\* Lines 15-21
default_extracted_data ==
    [date |-> <<>>, truck_id |-> <<>>, quantity |-> <<>>,
     quantity_type |-> "litres", slip_number |-> <<>>]

\* Lines 14-21: if 'extracted_data' not in st.session_state: ...
initialised_Always(session) ==
    update(session, [extracted_data |-> default_extracted_data])

initialised(session) ==
    IF "extracted_data" \in DOMAIN session THEN session
    ELSE update(session, [extracted_data |-> default_extracted_data])

\* Lines 145-147: the extraction runs for an uploaded file, with OCR
\* available and the button pressed: <<>> or <<its outcome>>.
extraction_of(uploaded_file, OCR_AVAILABLE, extract_button) ==
    IF uploaded_file # <<>> /\ OCR_AVAILABLE /\ extract_button
    THEN <<extract_data_from_image(uploaded_file[1])>>
    ELSE <<>>

\* Lines 149-150: a result that is not None replaces the session's.
after_extraction(session, extraction) ==
    IF extraction # <<>> /\ extraction[1].ret # <<>>
    THEN update(session, [extracted_data |-> extraction[1].ret[1]])
    ELSE session

\* str.isdigit(): not empty and every character a digit; the characters of
\* the model that are digits to isdigit are 0-9 and the superscript two,
\* which float() does not accept.
DigitCharacters == Digits \cup {"²"}

isdigit(chars) ==
    chars # <<>> /\ \A i \in DOMAIN chars : chars[i] \in DigitCharacters

\* quantity.replace('.', '', 1)
without_first_point(chars) ==
    LET points == {i \in DOMAIN chars : chars[i] = "."}
    IN  IF points = {} THEN chars
        ELSE LET first == CHOOSE i \in points : \A j \in points : i <= j
             IN  SubSeq(chars, 1, first - 1)
                     \o SubSeq(chars, first + 1, Len(chars))

\* Line 201
is_number(quantity) == isdigit(without_first_point(quantity))

\* Lines 194-202
validation_errors(date, truck_id, quantity) ==
    (IF date = <<>> THEN <<"Date is required">> ELSE <<>>)
    \o (IF truck_id = <<>> THEN <<"Truck ID is required">> ELSE <<>>)
    \o (IF quantity = <<>> THEN <<"Quantity is required">>
        ELSE IF ~is_number(quantity) THEN <<"Quantity must be a number">>
        ELSE <<>>)

\* Lines 209-216: the row, or the exception float(quantity) raises.
report_data(entry, now) ==
    LET number == float(Str(entry.quantity))
    IN  IF ~number.ok THEN [exc |-> number.exc, ret |-> <<>>]
        ELSE [exc |-> "none",
              ret |-> <<("Date" :> <<entry.date>>
                         @@ "Truck ID" :> <<upper_str(entry.truck_id)>>
                         @@ "Quantity Type" :> <<entry.quantity_type>>
                         @@ "Quantity" :> <<number.v>>
                         @@ "Slip Number" :> <<entry.slip_number>>
                         @@ "Processed Timestamp" :> <<now>>)>>]

\* What pytesseract reads from the uploaded images.
SlipTexts ==
    {<<"5", "0", "0", " ", "L", "I", "T", "E", "R", "S">>,
     <<"4", "0", " ", "L", "T", "R">>,
     <<"8", " ", "L", "I", "T", "E", "R">>,
     <<"6", "0", " ", "L">>,
     <<"2", "5", " ", "T">>,
     <<"3", "0", " ", "T", "O", "N", "S">>,
     <<"3", "0", " ", "T", "O", "N">>,
     <<"1", "2", " ", "K", "G">>,
     <<"7", " ", "K", "G", "S">>,
     <<"Q", "T", "Y", " ", "5", "0", "0", " ", "L", "I", "T", "E", "R", "S">>,
     <<"0", "1", "/", "0", "2", "/", "2", "0", "2", "4", " ", "N", "D", " ", "1", "2", "3", "4", "5", " ", "Q", "T", "Y", ":", " ", "3", "0", " ", "T", "O", "N", "S", " ", "S", "L", "I", "P", " ", "9", "9", "1", "2", "3">>,
     <<"N", "O", " ", "D", "A", "T", "A">>}

SlipImages ==
    {[readable |-> TRUE, text |-> text] : text \in SlipTexts}
    \cup {[readable |-> FALSE, text |-> <<>>]}

\* What the user types into the form.
FormEntries ==
    {[date |-> date, truck_id |-> truck_id, quantity |-> quantity,
      quantity_type |-> kind.quantity_type,
      slip_number |-> kind.slip_number] :
        date \in {<<>>, <<"0", "1", "/", "0", "2", "/", "2", "0", "2", "4">>},
        truck_id \in {<<>>, <<"n", "d", " ", "1", "2", "3", "4", "5">>},
        quantity \in {<<>>, <<"5", "0", "0">>, <<"5", ".", "5">>,
                      <<"5", ".", "5", ".", "5">>, <<"a", "b", "c">>,
                      <<"²">>},
        kind \in {[quantity_type |-> "litres", slip_number |-> <<>>],
                  [quantity_type |-> "tons",
                   slip_number |-> <<"9", "9", "1", "2", "3">>]}}

\* datetime.now().strftime(...)
Timestamps == {"2024-02-01 10:00:00"}

\* Lines 141-243 with the session initialised and the extraction done.
ShowSlipPage(run, session, extraction) ==
    /\ session_state' = after_extraction(session, extraction)
    /\ \E entry \in FormEntries \cup {session_state'.extracted_data},
          now \in Timestamps, excel_works \in BOOLEAN :
          LET errors == IF run.submitted
                        THEN validation_errors(entry.date, entry.truck_id,
                                               entry.quantity)
                        ELSE <<>>
              row == IF run.submitted /\ errors = <<>>
                     THEN report_data(entry, now)
                     ELSE [exc |-> "none", ret |-> <<>>]
          IN  /\ row.ret = <<>> => excel_works
              /\ slip' =
                    <<[uploaded_file   |-> run.uploaded_file,
                       OCR_AVAILABLE   |-> run.OCR_AVAILABLE,
                       extract_button  |-> run.extract_button,
                       extraction      |-> extraction,
                       message         |->
                           IF extraction = <<>> THEN "none"
                           ELSE IF extraction[1].ret # <<>> THEN "success"
                           ELSE "failed",
                       defaults        |-> session_state'.extracted_data,
                       entry           |-> entry,
                       submitted       |-> run.submitted,
                       errors          |-> errors,
                       report_data     |-> row.ret,
                       download        |-> row.ret # <<>> /\ excel_works,
                       exception       |->
                           IF row.exc # "none" THEN row.exc
                           ELSE IF row.ret # <<>> /\ ~excel_works
                                THEN "ExcelError" ELSE "none"]>>

\* One run of the script.
SlipRun(run) ==
    /\ slip = <<>>
    /\ session_before' = <<session_state>>
    /\ ShowSlipPage(run, initialised(session_state),
                    extraction_of(run.uploaded_file, run.OCR_AVAILABLE,
                                  run.extract_button))
    /\ UNCHANGED <<engine_vars, widgets, sliders, scenario, exports, view,
                   request_vars>>

\* The run is over: its locals are gone, session_state stays.
EndSlipRun ==
    /\ slip # <<>>
    /\ slip' = <<>>
    /\ session_before' = <<>>
    /\ UNCHANGED <<engine_vars, widgets, sliders, scenario, exports,
                   session_state, view, request_vars>>

\* The user interacts with the page and Streamlit runs the script.
SlipRuns ==
    [uploaded_file  : {<<>>} \cup {<<image>> : image \in SlipImages},
     OCR_AVAILABLE  : BOOLEAN,
     extract_button : BOOLEAN,
     submitted      : BOOLEAN]

image_to_report_manual == slip = <<>> /\ \E run \in SlipRuns : SlipRun(run)

NextSlip == image_to_report_manual \/ EndSlipRun

SpecSlip == Init /\ [][NextSlip]_vars

(***************************************************************************)
(* Properties.  The vocabulary of the statements below.                    *)
(***************************************************************************)
\* The field as calculate_costs_and_profit reads it from the current inputs.
Read(key) == float(get(inputs, key, Num(Zero)))

\* Every field reads as a number that is not negative.
AllNonNegative ==
    \A k \in KeySet : Read(k).ok /\ RLeq(Zero, Read(k).v)

\* Some field is negative, missing, or does not read as a number.
InvalidInput ==
    \E k \in KeySet :
        \/ k \notin DOMAIN inputs
        \/ ~Read(k).ok
        \/ RLt(Read(k).v, Zero)

Sum4(a, b, c, d) == RAdd(RAdd(RAdd(a, b), c), d)

(***************************************************************************)
(* C1.  For non-negative inputs calculate_costs_and_profit returns, and    *)
(* the total_cost it returns is exactly fuel_cost + driver_cost +          *)
(* vehicle_operating_cost + toll_fees + admin_cost of the same result,     *)
(* where toll_fees is the toll_fees of the inputs, counted once.           *)
(***************************************************************************)
C1_TotalCostIsSumOfComponents ==
    (pc # "idle" /\ AllNonNegative) =>
        /\ pc = "returned"
        /\ LET r == results[1]
           IN  /\ r.toll_fees = Read("toll_fees").v
               /\ r.total_cost =
                      RAdd(Sum4(r.fuel_cost, r.driver_cost,
                                r.vehicle_operating_cost, r.toll_fees),
                           r.admin_cost)

C1_Witness ==
    /\ pc = "returned"
    /\ AllNonNegative
    /\ RLt(Zero, results[1].toll_fees)
    /\ RLt(Zero, results[1].fuel_cost)

(***************************************************************************)
(* C2.  Whenever a numeric input is negative, or a field is missing or not *)
(* numeric, calculate_costs_and_profit raises ValidationError and returns  *)
(* no result mapping.                                                      *)
(***************************************************************************)
C2_InvalidInputIsRejected ==
    (pc # "idle" /\ InvalidInput) =>
        /\ pc = "raised"
        /\ exception = "ValidationError"
        /\ results = <<>>

(***************************************************************************)
(* C3.  With load = 0 and every other field non-negative the call returns  *)
(* and cost_per_ton = 0 and recommended_rate_per_ton = 0.                  *)
(***************************************************************************)
C3_ZeroLoadGivesZeroPerTon ==
    (pc # "idle" /\ AllNonNegative /\ Read("load").v = Zero) =>
        /\ pc = "returned"
        /\ exception = "none"
        /\ results[1].cost_per_ton = Zero
        /\ results[1].recommended_rate_per_ton = Zero

C3_Witness ==
    /\ pc = "returned"
    /\ AllNonNegative
    /\ Read("load").v = Zero
    /\ RLt(Zero, results[1].total_cost)
    /\ results[1].cost_per_ton = Zero

(***************************************************************************)
(* C4.  With rate_per_ton = 0 or load = 0 (all fields non-negative) the    *)
(* call returns total_revenue = 0 and profit_margin = 0, while profit is   *)
(* zero or negative.                                                       *)
(***************************************************************************)
C4_ZeroRevenueGivesZeroMargin ==
    (/\ pc # "idle"
     /\ AllNonNegative
     /\ (Read("rate_per_ton").v = Zero \/ Read("load").v = Zero)) =>
        /\ pc = "returned"
        /\ results[1].total_revenue = Zero
        /\ results[1].profit_margin = Zero
        /\ RLeq(results[1].profit, Zero)

C4_Witness ==
    /\ pc = "returned"
    /\ AllNonNegative
    /\ Read("rate_per_ton").v = Zero
    /\ RLt(Zero, Read("load").v)
    /\ RLt(results[1].profit, Zero)
    /\ results[1].profit_margin = Zero

(***************************************************************************)
(* C5.  With distance = 0 (all fields non-negative) the call returns and   *)
(* recommended_rate_per_km = 0.                                            *)
(***************************************************************************)
C5_ZeroDistanceGivesZeroPerKm ==
    (pc # "idle" /\ AllNonNegative /\ Read("distance").v = Zero) =>
        /\ pc = "returned"
        /\ exception = "none"
        /\ results[1].recommended_rate_per_km = Zero

C5_Witness ==
    /\ pc = "returned"
    /\ AllNonNegative
    /\ Read("distance").v = Zero
    /\ RLt(Zero, results[1].total_revenue)
    /\ results[1].recommended_rate_per_km = Zero

(***************************************************************************)
(* C6.  admin_cost is 8% of the subtotal fuel_cost + driver_cost +         *)
(* vehicle_operating_cost + toll_fees, so total_cost is the subtotal times *)
(* 1.08, the tolls of the inputs entering the subtotal once.               *)
(***************************************************************************)
C6_AdminIsEightPercentOfSubtotal ==
    pc = "returned" =>
        LET r == results[1]
            subtotal == Sum4(r.fuel_cost, r.driver_cost,
                             r.vehicle_operating_cost, r.toll_fees)
        IN  /\ r.toll_fees = Read("toll_fees").v
            /\ r.admin_cost = RMul(subtotal, Rat(8, 100))
            /\ r.total_cost = RMul(subtotal, Rat(108, 100))

C6_Witness ==
    /\ pc = "returned"
    /\ RLt(Zero, results[1].toll_fees)
    /\ RLt(Zero, results[1].driver_cost)
    /\ RLt(Zero, results[1].vehicle_operating_cost)
    /\ RLt(results[1].vehicle_operating_cost, results[1].admin_cost)

(***************************************************************************)
(* C7.  A recognised payment term has a fixed risk level and number of     *)
(* days to payment: Cash (Low, 0), Daily (Low, 1), Weekly (Medium, 7),     *)
(* Monthly (High, 30), whatever profit and total_cost are.                 *)
(***************************************************************************)
C7_FixedRiskTable ==
    (payment_terms # <<>> /\ payment_terms[1] \in PaymentTerms) =>
        LET t == payment_terms[1]
            expected ==
                CASE t = "Cash"    -> <<"Low", 0>>
                  [] t = "Daily"   -> <<"Low", 1>>
                  [] t = "Weekly"  -> <<"Medium", 7>>
                  [] t = "Monthly" -> <<"High", 30>>
            pair(a) == <<a.risk_level, a.days_to_payment>>
        IN  /\ cashflow_analysis # <<>>
            /\ pair(cashflow_analysis[1]) = expected
            /\ \A p \in {Rat(-1, 1), Rat(5, 2)}, c \in {Zero, Rat(7, 2)} :
                   pair(get_cashflow_risk_analysis(t, p, c)) = expected

C7_Witness ==
    /\ payment_terms = <<"Daily">>
    /\ cashflow_analysis # <<>>
    /\ cashflow_analysis[1].risk_level = "Low"
    /\ RLt(Zero, results[1].total_cost)
    /\ RLt(results[1].profit, Zero)

(***************************************************************************)
(* C8.  A payment term that is none of Cash, Daily, Weekly, Monthly does   *)
(* not make get_cashflow_risk_analysis fail: it returns exactly the        *)
(* analysis of Weekly (Medium, 7 days, same opportunity cost and adjusted  *)
(* profit).                                                                *)
(***************************************************************************)
C8_UnknownTermsFallBackToWeekly ==
    (payment_terms # <<>> /\ payment_terms[1] \notin PaymentTerms) =>
        /\ cashflow_analysis # <<>>
        /\ cashflow_analysis[1].risk_level = "Medium"
        /\ cashflow_analysis[1].days_to_payment = 7
        /\ cashflow_analysis[1] =
               get_cashflow_risk_analysis("Weekly", results[1].profit,
                                          results[1].total_cost)

C8_Witness ==
    /\ payment_terms = <<"Fortnightly">>
    /\ cashflow_analysis # <<>>
    /\ RLt(Zero, cashflow_analysis[1].opportunity_cost)

(***************************************************************************)
(* C9.  The analysis has opportunity_cost = total_cost * (10% / 365) *     *)
(* days_to_payment and adjusted_profit = profit - opportunity_cost; for    *)
(* Cash the opportunity cost is 0 and the adjusted profit is the profit.   *)
(***************************************************************************)
C9_OpportunityCostAndAdjustedProfit ==
    cashflow_analysis # <<>> =>
        LET a == cashflow_analysis[1]
            r == results[1]
        IN  /\ a.cash_tied_up = r.total_cost
            /\ a.opportunity_cost =
                   RMul(RMul(r.total_cost, Rat(10, 36500)),
                        Rat(a.days_to_payment, 1))
            /\ a.adjusted_profit = RSub(r.profit, a.opportunity_cost)
            /\ payment_terms = <<"Cash">> =>
                   a.opportunity_cost = Zero /\ a.adjusted_profit = r.profit

C9_Witness ==
    /\ payment_terms = <<"Weekly">>
    /\ cashflow_analysis # <<>>
    /\ RLt(Zero, cashflow_analysis[1].opportunity_cost)
    /\ RLt(cashflow_analysis[1].adjusted_profit, results[1].profit)
    /\ RLt(Zero, cashflow_analysis[1].adjusted_profit)

(***************************************************************************)
(* C10.  For a total_cost that is not negative the opportunity cost is     *)
(* ordered Cash <= Daily <= Weekly <= Monthly, and for the same profit the *)
(* adjusted profit is ordered the other way.                               *)
(***************************************************************************)
C10_OpportunityCostMonotoneInTerms ==
    (cashflow_analysis # <<>> /\ RLeq(Zero, results[1].total_cost)) =>
        LET of(t) == get_cashflow_risk_analysis(t, results[1].profit,
                                                results[1].total_cost)
            ordered(s, t) ==
                /\ RLeq(of(s).opportunity_cost, of(t).opportunity_cost)
                /\ RLeq(of(t).adjusted_profit, of(s).adjusted_profit)
        IN  /\ ordered("Cash", "Daily")
            /\ ordered("Daily", "Weekly")
            /\ ordered("Weekly", "Monthly")
            /\ payment_terms[1] \in PaymentTerms =>
                   cashflow_analysis[1] = of(payment_terms[1])

C10_Witness ==
    /\ payment_terms = <<"Monthly">>
    /\ cashflow_analysis # <<>>
    /\ RLt(Zero, results[1].total_cost)
    /\ RLt(get_cashflow_risk_analysis("Weekly", results[1].profit,
                                      results[1].total_cost).opportunity_cost,
           cashflow_analysis[1].opportunity_cost)

(***************************************************************************)
(* C11.  Of two inputs that differ only in fuel price, with distance > 0,  *)
(* the one with the higher fuel price has the strictly higher total_cost   *)
(* and the strictly lower profit.                                          *)
(***************************************************************************)
WithField(key, value) ==
    calculate_costs_and_profit(update(inputs, key :> Num(value))).ret[1]

C11_FuelPriceStrictlyMonotone ==
    (/\ pc = "returned"
     /\ payment_terms = <<>>
     /\ RLt(Zero, Read("distance").v)) =>
        \A dearer \in NumValues \cup {Rat(30, 1)} :
            RLt(Read("fuel_price").v, dearer) =>
                /\ RLt(results[1].total_cost,
                       WithField("fuel_price", dearer).total_cost)
                /\ RLt(WithField("fuel_price", dearer).profit,
                       results[1].profit)

C11_Witness ==
    /\ pc = "returned"
    /\ RLt(Zero, Read("distance").v)
    /\ RLt(Zero, Read("fuel_price").v)
    /\ RLt(Read("fuel_price").v, Rat(30, 1))
    /\ RLt(results[1].total_cost,
           WithField("fuel_price", Rat(30, 1)).total_cost)

C14_SampleTextMatchesCalculator ==
    (/\ inputs = sample_route
     /\ payment_terms = <<"Weekly">>) =>
        /\ results[1].total_revenue = Rat(11250, 1)
        /\ results[1].total_cost = Rat(9456, 1)
        /\ results[1].profit = Rat(1794, 1)
        /\ RLeq(Rat(1585, 100), results[1].profit_margin)
        /\ RLt(results[1].profit_margin, Rat(1595, 100))
        /\ cashflow_analysis[1].risk_level = "Medium"

(***************************************************************************)
(* C18.  As claimed: recommended_rate_per_ton is cost_per_ton times        *)
(* (1 + target_markup_pct / 100) for the markup the caller configures,     *)
(* 20% when it configures none.                                            *)
(***************************************************************************)
C18_MarkupIsConfigurable ==
    pc = "returned" =>
        LET pct == get(inputs, "target_markup_pct", Num(Rat(20, 1))).v
        IN  results[1].recommended_rate_per_ton =
                RMul(results[1].cost_per_ton,
                     RAdd(Rat(1, 1), RDiv(pct, Rat(100, 1))))

(***************************************************************************)
(* C18, amended.  recommended_rate_per_ton is cost_per_ton times 1.2, a    *)
(* markup of 20% that no caller can configure; so it is 1.2 * total_cost / *)
(* load for load > 0.                                                      *)
(***************************************************************************)
C18_MarkupIsTwentyPercent ==
    pc = "returned" =>
        /\ results[1].recommended_rate_per_ton =
               RMul(results[1].cost_per_ton, Rat(120, 100))
        /\ RLt(Zero, Read("load").v) =>
               results[1].recommended_rate_per_ton =
                   RDiv(RMul(Rat(12, 10), results[1].total_cost),
                        Read("load").v)

C18_Witness ==
    /\ pc = "returned"
    /\ "target_markup_pct" \in DOMAIN inputs
    /\ inputs["target_markup_pct"] = Num(Rat(30, 1))
    /\ RLt(Zero, Read("load").v)
    /\ RLt(Zero, results[1].recommended_rate_per_ton)

(***************************************************************************)
(* C19.  As claimed: for load > 0 the recommended rate is the least rate    *)
(* per ton that reaches the 20% profit margin: at that rate the margin is  *)
(* at least 20%, at any lower rate it is below 20%.  (Stated for a trip     *)
(* that costs something; a trip that costs nothing has margin 0 at every   *)
(* rate up to the recommended one, which is 0.)                            *)
(***************************************************************************)
\* Rates below the recommended one, down to 0.
LowerRates ==
    {r \in {RMul(results[1].recommended_rate_per_ton, Rat(k, 10)) : k \in 0..9} :
        RLt(r, results[1].recommended_rate_per_ton)}

C19_Case ==
    /\ pc = "returned"
    /\ payment_terms = <<>>
    /\ AllNonNegative
    /\ RLt(Zero, Read("load").v)

C19_RecommendedRateReachesMargin ==
    (C19_Case /\ RLt(Zero, results[1].total_cost)) =>
        /\ RLeq(Rat(20, 1),
                WithField("rate_per_ton",
                          results[1].recommended_rate_per_ton).profit_margin)
        /\ \A lower \in LowerRates :
               RLt(WithField("rate_per_ton", lower).profit_margin, Rat(20, 1))

(***************************************************************************)
(* C19, amended.  For load > 0 the recommended rate is the least rate per  *)
(* ton that reaches the 20% markup on cost: at that rate the profit is 20% *)
(* of total_cost (a margin of 16 2/3 % when total_cost > 0), at any lower  *)
(* rate the profit is below 20% of total_cost.                             *)
(***************************************************************************)
C19_RecommendedRateReachesMarkup ==
    C19_Case =>
        LET target == RMul(results[1].total_cost, Rat(20, 100))
            at == WithField("rate_per_ton",
                            results[1].recommended_rate_per_ton)
        IN  /\ at.total_cost = results[1].total_cost
            /\ at.profit = target
            /\ RLt(Zero, results[1].total_cost) =>
                   at.profit_margin = Rat(50, 3)
            /\ \A lower \in LowerRates :
                   RLt(WithField("rate_per_ton", lower).profit, target)

C19_Witness ==
    /\ C19_Case
    /\ RLt(Zero, results[1].total_cost)
    /\ LowerRates # {}
    /\ WithField("rate_per_ton",
                 results[1].recommended_rate_per_ton).profit_margin
           = Rat(50, 3)

(***************************************************************************)
(* The page's claims are read in the state a run of main() has reached,    *)
(* before its locals are dropped.                                          *)
(***************************************************************************)
\* The button was pressed in this run.
Pressed == widgets # <<>> /\ widgets[1].calculate_button

\* None of the five required fields is zero in this run.
Filled ==
    /\ widgets # <<>>
    /\ widgets[1].distance # Zero
    /\ widgets[1].load # Zero
    /\ widgets[1].fuel_price # Zero
    /\ widgets[1].turnaround_time # Zero
    /\ widgets[1].rate_per_ton # Zero

\* The run has computed, shown, offered for export or stored something.
SomethingComputed ==
    \/ results # <<>>
    \/ cashflow_analysis # <<>>
    \/ scenario # <<>>
    \/ exports # <<>>
    \/ view.stored

(***************************************************************************)
(* C20.  A run of the page computes (results, what-if scenario, exports,   *)
(* last_results) only if the button was pressed and distance, load, fuel   *)
(* price, turnaround time and rate per ton are all non-zero; a run with    *)
(* the button pressed and one of the five zero shows the error and         *)
(* computes and stores nothing; toll fees may be zero.  No call of         *)
(* calculate_costs_and_profit, for the baseline or for the scenario, has   *)
(* load = 0 or distance = 0.                                               *)
(***************************************************************************)
C20_CalculationOnlyWhenFilled ==
    widgets # <<>> =>
        /\ SomethingComputed => Pressed /\ Filled
        /\ Pressed /\ ~Filled =>
               view.screen = "error" /\ ~SomethingComputed
        /\ Pressed /\ Filled => results # <<>> /\ view.screen = "results"
        /\ results # <<>> =>
               Read("load").v # Zero /\ Read("distance").v # Zero
        /\ scenario # <<>> =>
               /\ scenario[1].sim_inputs.load.v # Zero
               /\ scenario[1].sim_inputs.distance.v # Zero

C20_Witness ==
    /\ Pressed /\ Filled
    /\ widgets[1].toll_fees = Zero
    /\ results # <<>> /\ exports # <<>> /\ view.stored
    /\ scenario # <<>> /\ scenario[1].sim_inputs.load.v # widgets[1].load

\* What the engine returns for the widgets' values alone: the baseline.
Baseline ==
    LET inputs_  == page_inputs(widgets[1])
        results_ == calculate_costs_and_profit(inputs_).ret[1]
    IN  [inputs  |-> inputs_,
         results |-> results_,
         cashflow_analysis |->
             get_cashflow_risk_analysis(widgets[1].payment_terms,
                                        results_.profit,
                                        results_.total_cost)]

\* The baseline inputs with the four slider values in place of the widgets'.
Substituted ==
    [k \in DOMAIN Baseline.inputs |->
        CASE k = "fuel_price"   -> Num(sliders[1].sim_fuel_price)
          [] k = "rate_per_ton" -> Num(sliders[1].sim_rate_per_ton)
          [] k = "load"         -> Num(sliders[1].sim_load)
          [] k = "toll_fees"    -> Num(sliders[1].sim_toll_fees)
          [] OTHER              -> Baseline.inputs[k]]

(***************************************************************************)
(* C15.  The what-if recomputation has no side effect: in every run, after *)
(* however many earlier runs and for any slider values, the inputs         *)
(* mapping, the results and the cashflow analysis are the baseline's, the  *)
(* what-if result is what the calculator returns for the baseline inputs   *)
(* with the slider values substituted (whatever earlier runs left in       *)
(* the session), and the exports and session_state['last_results'] carry   *)
(* the baseline, not the scenario.                                         *)
(***************************************************************************)
C15_WhatIfLeavesBaselineAlone ==
    scenario # <<>> =>
        /\ inputs = Baseline.inputs
        /\ results = <<Baseline.results>>
        /\ cashflow_analysis = <<Baseline.cashflow_analysis>>
        /\ scenario[1].sim_inputs = Substituted
        /\ scenario[1].sim_results =
               calculate_costs_and_profit(Substituted).ret[1]
        /\ exports = <<[excel_data |-> Baseline, pdf_data |-> Baseline]>>
        /\ session_state.last_results = Baseline

C15_Witness ==
    /\ scenario # <<>>
    /\ sliders[1].sim_fuel_price # widgets[1].fuel_price
    /\ sliders[1].sim_rate_per_ton # widgets[1].rate_per_ton
    /\ sliders[1].sim_load # widgets[1].load
    /\ sliders[1].sim_toll_fees # widgets[1].toll_fees
    /\ scenario[1].sim_results # results[1]
    /\ session_state.last_results.inputs = inputs
    /\ exports[1].excel_data.results = results[1]

\* The cashflow assessment of the scenario: what get_cashflow_risk_analysis
\* returns for the scenario's profit and total cost.
ScenarioAssessment ==
    get_cashflow_risk_analysis(widgets[1].payment_terms,
                               scenario[1].sim_results.profit,
                               scenario[1].sim_results.total_cost)

(***************************************************************************)
(* C16 as stated.  The what-if recomputation produces, next to the new     *)
(* profitability result, a new cashflow risk assessment: one of its        *)
(* outputs is the assessment of the scenario.                              *)
(***************************************************************************)
C16_WhatIfReassessesCashflow ==
    scenario # <<>> =>
        /\ scenario[1].sim_results =
               calculate_costs_and_profit(Substituted).ret[1]
        /\ \E output \in DOMAIN scenario[1] :
               scenario[1][output] = ScenarioAssessment

\* The fields the what-if sliders override.
OverriddenKeys == {"fuel_price", "rate_per_ton", "load", "toll_fees"}

(***************************************************************************)
(* C16, amended.  The what-if recomputation overrides exactly fuel_price,  *)
(* rate_per_ton, load and toll_fees with the slider values (every other    *)
(* field stays the baseline's) and produces one output, a profitability    *)
(* result: the costs, revenue, profit and margin of the baseline with the  *)
(* four fields substituted.  It produces no cashflow assessment; the       *)
(* run's cashflow analysis is that of the baseline results.                *)
(***************************************************************************)
C16_WhatIfRecomputesProfitabilityOnly ==
    scenario # <<>> =>
        LET sim_inputs  == scenario[1].sim_inputs
            sim_results == scenario[1].sim_results
            s == sliders[1]
            w == widgets[1]
            fuel == RMul(RMul(w.distance, Rat(35, 100)), s.sim_fuel_price)
            driver == RMul(w.turnaround_time, Rat(85, 1))
            vehicle == RMul(w.distance, Rat(450, 100))
            subtotal == Sum4(fuel, driver, vehicle, s.sim_toll_fees)
            cost == RAdd(subtotal, RMul(subtotal, Rat(8, 100)))
            revenue == RMul(s.sim_load, s.sim_rate_per_ton)
        IN  /\ DOMAIN scenario[1] = {"sim_inputs", "sim_results"}
            /\ DOMAIN sim_inputs = DOMAIN inputs
            /\ \A k \in DOMAIN inputs \ OverriddenKeys :
                   sim_inputs[k] = inputs[k]
            /\ sim_inputs.fuel_price = Num(s.sim_fuel_price)
            /\ sim_inputs.rate_per_ton = Num(s.sim_rate_per_ton)
            /\ sim_inputs.load = Num(s.sim_load)
            /\ sim_inputs.toll_fees = Num(s.sim_toll_fees)
            /\ sim_results.total_cost = cost
            /\ sim_results.total_revenue = revenue
            /\ sim_results.profit = RSub(revenue, cost)
            /\ sim_results.cost_per_ton = RDiv(cost, s.sim_load)
            /\ RLt(Zero, revenue) =>
                   sim_results.profit_margin =
                       RMul(RDiv(RSub(revenue, cost), revenue), Rat(100, 1))
            /\ cashflow_analysis =
                   <<get_cashflow_risk_analysis(w.payment_terms,
                                                results[1].profit,
                                                results[1].total_cost)>>

C16_Witness ==
    /\ scenario # <<>>
    /\ \A k \in OverriddenKeys : scenario[1].sim_inputs[k] # inputs[k]
    /\ RLt(Zero, scenario[1].sim_results.total_revenue)
    /\ cashflow_analysis[1] # ScenarioAssessment

\* The run computed results for the inputs of the calculation the session
\* last stored, which an earlier run made.
C12_Case ==
    /\ results # <<>>
    /\ cashflow_analysis # <<>>
    /\ session_before # <<>>
    /\ session_before[1] # <<>>
    /\ session_before[1].last_results.inputs = inputs

Alone(request) ==
    LET results_ == calculate_costs_and_profit(calls[request].inputs).ret[1]
    IN  [results |-> results_,
         cashflow_analysis |->
             get_cashflow_risk_analysis(calls[request].payment_terms,
                                        results_.profit,
                                        results_.total_cost)]

\* The request has its results; it has its cashflow analysis.
HasResults(request) == calls[request].pc \in {"risk", "opportunity", "done"}

HasAnalysis(request) == calls[request].pc = "done"

(***************************************************************************)
(* C17.  However the statements of concurrent requests interleave, each    *)
(* request gets exactly what it would get running alone, and while its     *)
(* call runs, the inputs and the intermediate values in its frame are its  *)
(* own: the inputs it passed, the fields read from them, the total cost    *)
(* and the profit computed from them.                                      *)
(***************************************************************************)
C17_InterleavedRequestsAreIsolated ==
    \A request \in Requests :
        LET c == calls[request]
            f == frames[frame(request)]
            alone == Alone(request)
        IN  /\ HasResults(request) => c.results = <<alone.results>>
            /\ HasAnalysis(request) =>
                   c.cashflow_analysis = <<alone.cashflow_analysis>>
            /\ c.pc \in {"extract", "costs", "profit", "return"} =>
                   f.inputs = c.inputs
            /\ c.pc \in {"costs", "profit", "return"} =>
                   \A k \in KeySet : f[k] = c.inputs[k].v
            /\ c.pc \in {"profit", "return"} =>
                   f.total_cost = alone.results.total_cost
            /\ c.pc = "return" => f.profit = alone.results.profit
            /\ c.pc = "opportunity" =>
                   /\ f.total_cost = alone.results.total_cost
                   /\ f.payment_terms = c.payment_terms

C17_Witness ==
    /\ calls[1].pc = "opportunity"
    /\ calls[2].pc = "profit"
    /\ calls[1].inputs # calls[2].inputs
    /\ calls[1].results = <<Alone(1).results>>
    /\ Alone(1).results # Alone(2).results
    /\ frames[frame(2)].total_cost # frames[frame(1)].total_cost

(***************************************************************************)
(* C21.  Whenever session_state holds last_results, after any runs of the  *)
(* page, its three parts come from one calculation: results is what        *)
(* calculate_costs_and_profit returns for inputs, and cashflow_analysis is *)
(* what get_cashflow_risk_analysis returns for the inputs' payment terms   *)
(* and the results' profit and total cost.  A run that shows the           *)
(* required-fields error or the welcome state leaves session_state as it   *)
(* found it.                                                               *)
(***************************************************************************)
C21_LastResultsAreOneCalculation ==
    /\ session_state # <<>> =>
           LET last == session_state.last_results
           IN  /\ DOMAIN session_state = {"last_results"}
               /\ DOMAIN last = {"inputs", "results", "cashflow_analysis"}
               /\ last.results =
                      calculate_costs_and_profit(last.inputs).ret[1]
               /\ last.cashflow_analysis =
                      get_cashflow_risk_analysis(
                          last.inputs.payment_terms.text,
                          last.results.profit, last.results.total_cost)
    /\ (widgets # <<>> /\ view.screen \in {"error", "welcome"}) =>
           session_state = session_before[1]

C21_Witness ==
    /\ widgets # <<>>
    /\ view.screen = "error"
    /\ session_state # <<>>
    /\ session_state = session_before[1]
    /\ session_state.last_results.cashflow_analysis.days_to_payment = 30
    /\ RLt(Zero, session_state.last_results.results.total_revenue)

\* The four sliders stand at the baseline values.
SlidersAtBaseline ==
    /\ sliders # <<>>
    /\ sliders[1].sim_fuel_price = widgets[1].fuel_price
    /\ sliders[1].sim_rate_per_ton = widgets[1].rate_per_ton
    /\ sliders[1].sim_load = widgets[1].load
    /\ sliders[1].sim_toll_fees = widgets[1].toll_fees

\* What the four scenario metrics show as their deltas in this run.
ShownDeltas == metric_deltas(scenario[1].sim_results, results[1])

(***************************************************************************)
(* C22.  When the four what-if values equal the baseline's, the what-if    *)
(* result equals the baseline result in every field and the four deltas    *)
(* shown (revenue, cost, profit, margin) are zero.  Whatever the sliders,  *)
(* the scenario's distance, turnaround time and payment terms are the      *)
(* baseline's.                                                             *)
(***************************************************************************)
C22_BaselineSlidersGiveZeroDeltas ==
    scenario # <<>> =>
        /\ SlidersAtBaseline =>
               /\ scenario[1].sim_results = results[1]
               /\ ShownDeltas = [revenue |-> Zero, cost |-> Zero,
                                 profit |-> Zero, margin |-> Zero]
        /\ scenario[1].sim_inputs.distance = Num(widgets[1].distance)
        /\ scenario[1].sim_inputs.turnaround_time =
               Num(widgets[1].turnaround_time)
        /\ scenario[1].sim_inputs.payment_terms =
               Text(widgets[1].payment_terms)

C22_Witness ==
    /\ scenario # <<>>
    /\ SlidersAtBaseline
    /\ RLt(Zero, results[1].total_revenue)
    /\ results[1].profit # Zero
    /\ ShownDeltas.profit = Zero

(***************************************************************************)
(* The slip extractor's claims are read in the state a run of the script   *)
(* has reached, before its locals are dropped.                             *)
(***************************************************************************)
\* The numeric check: the quantity without its first point is not empty and
\* all digits.
NumericCheck(quantity) ==
    LET points == {i \in DOMAIN quantity : quantity[i] = "."}
        others == {i \in DOMAIN quantity : quantity[i] # "."}
    IN  /\ Cardinality(points) <= 1
        /\ others # {}
        /\ \A i \in others : quantity[i] \in DigitCharacters

\* The errors the form shows, one for each check that fails.
ExpectedErrors(entry) ==
    (IF entry.date = <<>> THEN <<"Date is required">> ELSE <<>>)
    \o (IF entry.truck_id = <<>> THEN <<"Truck ID is required">> ELSE <<>>)
    \o (IF entry.quantity = <<>> THEN <<"Quantity is required">>
        ELSE IF ~NumericCheck(entry.quantity)
             THEN <<"Quantity must be a number">>
             ELSE <<>>)

(***************************************************************************)
(* C23.  On submission of the form a report row is built if and only if    *)
(* date and truck ID are not empty and quantity is not empty and passes    *)
(* the numeric check, whatever the slip number; when a check fails, an     *)
(* error is shown for each failing check and no report is built.           *)
(***************************************************************************)
C23_ReportIffValidated ==
    (slip # <<>> /\ slip[1].submitted) =>
        LET entry == slip[1].entry
            passes == /\ entry.date # <<>>
                      /\ entry.truck_id # <<>>
                      /\ entry.quantity # <<>>
                      /\ NumericCheck(entry.quantity)
        IN  /\ slip[1].report_data # <<>> <=> passes
            /\ slip[1].errors = ExpectedErrors(entry)
            /\ ~passes => slip[1].errors # <<>> /\ slip[1].report_data = <<>>

\* The value the session's extracted_data had when the run began (the
\* initial one in a session that had none yet).
HeldBefore ==
    IF session_before[1] = <<>> THEN default_extracted_data
    ELSE session_before[1].extracted_data

\* The run made a successful automatic extraction.
ExtractionSucceeded ==
    /\ slip[1].uploaded_file # <<>>
    /\ slip[1].OCR_AVAILABLE
    /\ slip[1].extract_button
    /\ slip[1].extraction # <<>>
    /\ slip[1].extraction[1].ret # <<>>

(***************************************************************************)
(* C24.  Once a run has begun, the session's extracted_data holds exactly  *)
(* the keys date, truck_id, quantity, quantity_type and slip_number, with  *)
(* quantity_type litres or tons.  A run replaces it only by the result of  *)
(* a successful automatic extraction; when the extraction fails (returns   *)
(* None) or is not requested, the value held before stays, and it is what  *)
(* the form takes its defaults from.                                       *)
(***************************************************************************)
C24_ExtractedDataKeptUnlessExtracted ==
    /\ slip # <<>> => session_state # <<>>
    /\ session_state # <<>> =>
           /\ DOMAIN session_state = {"extracted_data"}
           /\ DOMAIN session_state.extracted_data =
                  {"date", "truck_id", "quantity", "quantity_type",
                   "slip_number"}
           /\ session_state.extracted_data.quantity_type \in
                  {"litres", "tons"}
    /\ slip # <<>> =>
           /\ slip[1].defaults = session_state.extracted_data
           /\ IF ExtractionSucceeded
              THEN session_state.extracted_data =
                       slip[1].extraction[1].ret[1]
              ELSE session_state.extracted_data = HeldBefore

C24_Witness ==
    /\ slip # <<>>
    /\ slip[1].message = "failed"
    /\ ~ExtractionSucceeded
    /\ HeldBefore # default_extracted_data
    /\ HeldBefore.quantity_type = "tons"
    /\ session_state.extracted_data = HeldBefore
    /\ slip[1].defaults = HeldBefore

MassUnits ==
    {<<"K", "G">>, <<"K", "G", "S">>, <<"T">>, <<"T", "O", "N">>,
     <<"T", "O", "N", "S">>}

LitreUnits ==
    {<<"L">>, <<"L", "T", "R">>, <<"L", "I", "T", "E", "R">>,
     <<"L", "I", "T", "E", "R", "S">>}

(***************************************************************************)
(* C25.  extract_data_from_image returns quantity_type 'tons' exactly when *)
(* the unit matched with the quantity is a mass unit (KG, KGS, T, TON,     *)
(* TONS); for a litre unit (L, LTR, LITER, LITERS), or when no quantity is *)
(* found, quantity_type is 'litres'.                                       *)
(***************************************************************************)
C25_TonsExactlyForMassUnits ==
    (slip # <<>> /\ slip[1].extraction # <<>>
                 /\ slip[1].extraction[1].ret # <<>>) =>
        LET unit == slip[1].extraction[1].unit
            kind == slip[1].extraction[1].ret[1].quantity_type
        IN  /\ kind = "tons" <=> (unit # <<>> /\ unit[1] \in MassUnits)
            /\ (unit = <<>> \/ unit[1] \in LitreUnits) => kind = "litres"

====
